---- MODULE Spec2Model ----
(***************************************************************************)
(* Pet Breed & Disease Analysis API: the three tables (models.py), the     *)
(* POST /breeds handler (main.py, schemas.py, crud.py) and the             *)
(* GET /breeds/risk_analysis pipeline (services.py).                       *)
(*                                                                         *)
(* Numbers.  A prevalence is held in tenths (10 is 1.0).  A raw similarity *)
(* is the exact quotient [n, d] the SQL division produces; an adjusted     *)
(* score is held in units of 0.0001, the precision round(score, 4) keeps.  *)
(* Names are strings; Lex lists them in Python's string order.             *)
(***************************************************************************)
EXTENDS Integers, Sequences, FiniteSets, TLC

VARIABLES
    breeds,      \* table breeds: rows [id, name, species]
    diseases,    \* table diseases: rows [id, name]
    links,       \* table breed_disease_links: rows [breed_id, disease_id, prevalence]
    pc,          \* per POST /breeds request slot: position in crud.create_breed
    req,         \* per slot: the request body
    cur,         \* per slot: the handler's locals [breed_id, i, pending]
    resp,        \* per slot: [code, detail, loc] of the finished request (code 0 while running)
    nwritten,    \* per slot: number of rows the running request has committed
    made,        \* breed id -> the disease names listed by the request that created it
    issued,      \* number of POST /breeds requests issued so far
    ra,          \* the GET /breeds/risk_analysis request: locals of run_risk_analysis
    analysed,    \* number of risk analysis requests issued so far
    fn           \* component harness: [op, in, out] of the last component call

vars == <<breeds, diseases, links, pc, req, cur, resp, nwritten, made,
          issued, ra, analysed, fn>>

store == <<breeds, diseases, links>>
post  == <<pc, req, cur, resp, nwritten, made, issued>>

(***************************************************************************)
(* Bounds of the model.                                                    *)
(***************************************************************************)
MaxListLen  == 2      \* longest diseases list of a POST /breeds body
MaxRequests == 2      \* POST /breeds requests issued in one behaviour
MaxAnalyses == 1      \* risk analysis requests issued in one behaviour

Slots        == {"r1", "r2"}                 \* requests that may run at the same time
SlotNo(w)    == IF w = "r1" THEN 1 ELSE 2    \* a request takes the first free slot
BreedNames   == {"Beagle", "Persian"}
UnknownNames == {"Labradorr"}
DiseaseNames == {"Hip Dysplasia", "Diabetes"}
SpeciesIn    == {"dog", "bird"}              \* species values a client sends

\* Python's order on the strings used as names (str.__lt__, code point order).
Lex == <<"Beagle", "Bulldog", "Diabetes", "German Shepherd", "Hip Dysplasia",
         "Labradorr", "Persian", "Siamese">>
Rank(s) == CHOOSE i \in 1..Len(Lex) : Lex[i] = s

Range(s) == {s[i] : i \in 1..Len(s)}
SeqsUpTo(S, n) == UNION {[1..k -> S] : k \in 0..n}
MaxOf(S) == CHOOSE x \in S : \A y \in S : y <= x

(***************************************************************************)
(* models.py: the tables and their constraints.                            *)
(***************************************************************************)
\* Integer primary key of the next row of a table.
NextId(tbl) == IF tbl = {} THEN 1 ELSE MaxOf({r.id : r \in tbl}) + 1

\* unique=True on breeds.name and diseases.name
NameFree(tbl, name) == \A r \in tbl : r.name # name

LinkKey(l) == <<l.breed_id, l.disease_id>>

\* Primary key (breed_id, disease_id) of breed_disease_links, checked when
\* the rows a session holds are flushed: no two new rows and no new row and
\* stored row share a key.
FlushOK(pend, tbl) ==
    /\ \A i, j \in 1..Len(pend) : i # j => LinkKey(pend[i]) # LinkKey(pend[j])
    /\ \A i \in 1..Len(pend) : \A l \in tbl : LinkKey(l) # LinkKey(pend[i])

(***************************************************************************)
(* schemas.py: request validation done by the framework before the         *)
(* handler runs.                                                           *)
(***************************************************************************)
\* DiseaseCreateSchema: prevalence: float = Field(..., ge=0, le=1)
PrevalenceValid(p) == 0 <= p /\ p <= 10

\* SchemaValid with the Field bounds of prevalence left out.
SchemaValid_NoFieldBounds(body) == TRUE

\* BreedCreateSchema: every entry of diseases is a DiseaseCreateSchema
SchemaValid(body) ==
    \A i \in 1..Len(body.diseases) : PrevalenceValid(body.diseases[i].prevalence)

\* The disease entries clients send: each disease at prevalence 0.5, and
\* one entry of prevalence 1.5.
Entries ==
    [disease_name : DiseaseNames, prevalence : {5}]
    \cup {[disease_name |-> "Diabetes", prevalence |-> 15]}

\* The bodies clients send: every list up to MaxListLen for a species the
\* handler accepts, the lists of at most one entry for one it rejects.
Bodies ==
    [name : BreedNames, species : SpeciesIn \cap {"dog", "cat"},
     diseases : SeqsUpTo(Entries, MaxListLen)]
    \cup [name : BreedNames, species : SpeciesIn \ {"dog", "cat"},
          diseases : SeqsUpTo(Entries, 1)]

(***************************************************************************)
(* crud.py                                                                 *)
(***************************************************************************)
\* get_disease_by_name / get_breed_by_name: the rows with that name
get_by_name(tbl, name) == {r \in tbl : r.name = name}

NoLocals == [breed_id |-> 0, i |-> 0, pending |-> <<>>]

\* Where create_breed goes after list entry i has been handled.
AfterEntry(body, i) == IF i >= Len(body.diseases) THEN "commit" ELSE "loop"

NoBody == [name |-> "", species |-> "", diseases |-> <<>>]
NoResp == [code |-> 0, detail |-> "", loc |-> {}]

\* The request ends with an error: the session is closed, what it held and
\* had not committed is dropped.
Fail(w, code, detail, loc) ==
    /\ pc' = [pc EXCEPT ![w] = "done"]
    /\ resp' = [resp EXCEPT ![w] = [code |-> code, detail |-> detail, loc |-> loc]]
    /\ cur' = [cur EXCEPT ![w] = NoLocals]
    /\ req' = [req EXCEPT ![w] = NoBody]

\* The loc of the framework's 422: the positions of the entries of the body
\* that fail DiseaseCreateSchema.
SchemaErrors(body) ==
    {i \in 1..Len(body.diseases) : ~PrevalenceValid(body.diseases[i].prevalence)}

\* POST /breeds: body validation, then create_breed up to the duplicate check.
PostBreeds(w, body) ==
    /\ pc[w] \in {"idle", "done"}
    /\ \A v \in Slots : SlotNo(v) < SlotNo(w) => pc[v] \notin {"idle", "done"}
    /\ issued < MaxRequests
    /\ issued' = issued + 1
    /\ nwritten' = [nwritten EXCEPT ![w] = 0]
    /\ IF ~SchemaValid(body) THEN Fail(w, 422, "prevalence: value out of range", SchemaErrors(body))
       ELSE IF body.species \notin {"dog", "cat"}
       THEN Fail(w, 400, "Species must be 'dog' or 'cat'.", {})
       ELSE IF get_by_name(breeds, body.name) # {}
       THEN Fail(w, 400, "Breed already exists.", {})
       ELSE /\ pc' = [pc EXCEPT ![w] = "add_breed"]
            /\ req' = [req EXCEPT ![w] = body]
            /\ resp' = [resp EXCEPT ![w] = NoResp]
            /\ cur' = [cur EXCEPT ![w] = NoLocals]
    /\ UNCHANGED <<store, made, ra, analysed, fn>>

\* create_breed: the breed row is added and committed.
AddBreed(w) ==
    /\ pc[w] = "add_breed"
    /\ IF ~NameFree(breeds, req[w].name)
       THEN /\ Fail(w, 500, "IntegrityError: breeds.name", {})
            /\ UNCHANGED <<breeds, made, nwritten>>
       ELSE LET id == NextId(breeds) IN
            /\ breeds' = breeds \cup {[id |-> id, name |-> req[w].name,
                                       species |-> req[w].species]}
            /\ made' = [b \in DOMAIN made \cup {id} |->
                           IF b = id
                           THEN [i \in DOMAIN req[w].diseases |->
                                     req[w].diseases[i].disease_name]
                           ELSE made[b]]
            /\ nwritten' = [nwritten EXCEPT ![w] = @ + 1]
            /\ cur' = [cur EXCEPT ![w] = [breed_id |-> id, i |-> 1, pending |-> <<>>]]
            /\ pc' = [pc EXCEPT ![w] = AfterEntry(req[w], 0)]
            /\ UNCHANGED <<resp, req>>
    /\ UNCHANGED <<diseases, links, issued, ra, analysed, fn>>

NewLink(w, disease_id) ==
    [breed_id |-> cur[w].breed_id, disease_id |-> disease_id,
     prevalence |-> req[w].diseases[cur[w].i].prevalence]

\* create_breed: one pass of the loop over the diseases for a disease that
\* is found, or up to the point where it has to be created.
LoopEntry(w) ==
    /\ pc[w] = "loop"
    /\ LET d == req[w].diseases[cur[w].i]
           found == get_by_name(diseases, d.disease_name)
       IN  IF ~PrevalenceValid(d.prevalence)
           THEN Fail(w, 400, "Prevalence must be between 0 and 1.", {})
           ELSE IF found = {}
           THEN /\ pc' = [pc EXCEPT ![w] = "create_disease"]
                /\ UNCHANGED <<cur, resp, req>>
           ELSE \E disease \in found :
                /\ cur' = [cur EXCEPT ![w].pending = Append(@, NewLink(w, disease.id)),
                                      ![w].i = @ + 1]
                /\ pc' = [pc EXCEPT ![w] = AfterEntry(req[w], cur[w].i)]
                /\ UNCHANGED <<resp, req>>
    /\ UNCHANGED <<store, nwritten, made, issued, ra, analysed, fn>>

\* create_disease: the disease row is added and the session committed, which
\* also writes the links added so far; then the new link is added.
CreateDisease(w) ==
    /\ pc[w] = "create_disease"
    /\ LET name == req[w].diseases[cur[w].i].disease_name
           id == NextId(diseases)
       IN  IF ~NameFree(diseases, name) \/ ~FlushOK(cur[w].pending, links)
           THEN /\ Fail(w, 500, IF ~NameFree(diseases, name)
                                 THEN "IntegrityError: diseases.name"
                                 ELSE "conflict: breed_disease_links key", {})
                /\ UNCHANGED <<diseases, links, nwritten>>
           ELSE /\ diseases' = diseases \cup {[id |-> id, name |-> name]}
                /\ links' = links \cup Range(cur[w].pending)
                /\ nwritten' = [nwritten EXCEPT ![w] = @ + 1 + Len(cur[w].pending)]
                /\ cur' = [cur EXCEPT ![w].pending = <<NewLink(w, id)>>,
                                      ![w].i = @ + 1]
                /\ pc' = [pc EXCEPT ![w] = AfterEntry(req[w], cur[w].i)]
                /\ UNCHANGED <<resp, req>>
    /\ UNCHANGED <<breeds, made, issued, ra, analysed, fn>>

\* create_breed: the final commit writes the links still held; 201.
Commit(w) ==
    /\ pc[w] = "commit"
    /\ IF ~FlushOK(cur[w].pending, links)
       THEN /\ Fail(w, 500, "conflict: breed_disease_links key", {})
            /\ UNCHANGED <<links, nwritten>>
       ELSE /\ links' = links \cup Range(cur[w].pending)
            /\ nwritten' = [nwritten EXCEPT ![w] = @ + Len(cur[w].pending)]
            /\ cur' = [cur EXCEPT ![w] = NoLocals]
            /\ req' = [req EXCEPT ![w] = NoBody]
            /\ pc' = [pc EXCEPT ![w] = "done"]
            /\ resp' = [resp EXCEPT ![w] = [code |-> 201, detail |-> "", loc |-> {}]]
    /\ UNCHANGED <<breeds, diseases, made, issued, ra, analysed, fn>>

(***************************************************************************)
(* services.py                                                             *)
(***************************************************************************)
Perms(S) == {s \in [1..Cardinality(S) -> S] : \A i, j \in DOMAIN s : i # j => s[i] # s[j]}

\* _get_breed_by_name_or_404: the 404 detail carries the requested name and,
\* when difflib finds a close match among the stored names, that name.
NotFoundDetails(breed_name) ==
    {[breed_name |-> breed_name, suggestion |-> s] : s \in {""} \cup {b.name : b \in breeds}}

\* _fetch_target_diseases: the rows (name, prevalence, id) of the join of
\* diseases and breed_disease_links for the breed; the query has no ORDER BY.
TargetDiseaseRows(breed_id) ==
    {[name |-> d.name, prevalence |-> l.prevalence, id |-> d.id] :
        <<d, l>> \in {x \in diseases \X links :
                         x[1].id = x[2].disease_id /\ x[2].breed_id = breed_id}}

_fetch_target_diseases(breed_id) == Perms(TargetDiseaseRows(breed_id))

\* The first subquery of the similarity SQL: COUNT(*) of l1 JOIN l2 ON
\* l1.disease_id = l2.disease_id WHERE l1.breed_id = b1.id AND l2.breed_id = b2.id
SharedCount(b1, b2) ==
    Cardinality({x \in links \X links :
                    /\ x[1].disease_id = x[2].disease_id
                    /\ x[1].breed_id = b1 /\ x[2].breed_id = b2})

\* UnionCount with COUNT(disease_id) in place of COUNT(DISTINCT disease_id).
UnionCount_NotDistinct(b1, b2) ==
    Cardinality({l \in links : l.breed_id \in {b1, b2}})

\* The second subquery: COUNT(DISTINCT disease_id) WHERE breed_id IN (b1.id, b2.id)
UnionCount(b1, b2) ==
    Cardinality({l.disease_id : l \in {l \in links : l.breed_id \in {b1, b2}}})

\* SharedCount * 1.0 / UnionCount as the quotient [n, d]; a zero divisor
\* (d = 0) is the NULL the engine yields for a division by zero.
SqlSimilarity(b1, b2) == [n |-> SharedCount(b1, b2), d |-> UnionCount(b1, b2)]

IsNull(q) == q.d = 0

\* ORDER BY similarity DESC: a comes no later than b. NULL sorts lowest.
SqlGE(a, b) == IsNull(b) \/ (~IsNull(a) /\ a.n * b.d >= b.n * a.d)

\* FROM breeds b1, breeds b2 WHERE b1.name = :target_breed AND b2.name != :target_breed
SimilarityRows(target_breed) ==
    {[name |-> b2.name, species |-> b2.species, similarity |-> SqlSimilarity(b1.id, b2.id)] :
        <<b1, b2>> \in {x \in breeds \X breeds :
                           x[1].name = target_breed /\ x[2].name # target_breed}}

LimitRows == 3

Min(a, b) == IF a <= b THEN a ELSE b

\* ORDER BY similarity DESC LIMIT 3: the first rows of any order of the rows
\* that is descending in similarity (rows of equal similarity come in the
\* order the engine happens to produce).
OrderByLimit(rows) ==
    {s \in [1..Min(LimitRows, Cardinality(rows)) -> rows] :
        /\ \A i, j \in DOMAIN s : i < j => s[i] # s[j] /\ SqlGE(s[i].similarity, s[j].similarity)
        /\ \A r \in rows \ Range(s) : \A i \in DOMAIN s : SqlGE(s[i].similarity, r.similarity)}

\* float(r.similarity) if r.similarity is not None else 0.0
RowFloat(q) == IF IsNull(q) THEN [n |-> 0, d |-> 1] ELSE q

\* _top_similar_breeds_via_sql: the lists (name, species, similarity_raw) it may return
_top_similar_breeds_via_sql(target_breed_name) ==
    {[i \in DOMAIN s |-> [name |-> s[i].name, species |-> s[i].species,
                          similarity |-> RowFloat(s[i].similarity)]] :
        s \in OrderByLimit(SimilarityRows(target_breed_name))}

\* round(x, 4) of the quotient n / d, d > 0, in units of 0.0001: to the
\* nearest, a tie to the even neighbour.
Round4(n, d) ==
    LET q == (20000 * n + d) \div (2 * d)
        tie == (20000 * n + d) % (2 * d) = 0
    IN  IF tie /\ q % 2 = 1 THEN q - 1 ELSE q

\* Penalized with sim - 0.1 in place of max(0.0, sim - 0.1).
Penalized_NoClamp(sim, species, target_species) ==
    IF species # target_species
    THEN [n |-> 10 * sim.n - sim.d, d |-> 10 * sim.d]
    ELSE sim

\* score = sim, or max(0.0, sim - 0.1) when the species differ
Penalized(sim, species, target_species) ==
    IF species # target_species
    THEN IF 10 * sim.n - sim.d > 0
         THEN [n |-> 10 * sim.n - sim.d, d |-> 10 * sim.d]
         ELSE [n |-> 0, d |-> 1]
    ELSE sim

\* list.sort(key=lambda x: x[2], reverse=True): descending and stable, entries
\* of equal score keep the order they had.
RECURSIVE SortByScoreDesc(_)
SortByScoreDesc(s) ==
    IF s = <<>> THEN <<>>
    ELSE LET x == Head(s)
             rest == SortByScoreDesc(Tail(s))
             k == Cardinality({i \in DOMAIN rest : rest[i].similarity > x.similarity})
         IN  SubSeq(rest, 1, k) \o <<x>> \o SubSeq(rest, k + 1, Len(rest))

\* _apply_species_penalty
_apply_species_penalty(target_species, sims) ==
    SortByScoreDesc([i \in DOMAIN sims |->
        [name |-> sims[i].name, species |-> sims[i].species,
         similarity |-> LET p == Penalized(sims[i].similarity, sims[i].species, target_species)
                        IN  Round4(p.n, p.d)]])

\* sorted([disease_map[did] for did in ids]): the names in ascending order
RECURSIVE SortedNames(_)
SortedNames(ids) ==
    IF ids = {} THEN <<>>
    ELSE LET name(did) == (CHOOSE d \in diseases : d.id = did).name
             first == CHOOSE did \in ids : \A o \in ids : Rank(name(did)) <= Rank(name(o))
         IN  <<name(first)>> \o SortedNames(ids \ {first})

\* SharedIds with shared_ids |= their_ids in place of their_ids & target_set.
RECURSIVE SharedIds_NoTargetFilter(_, _, _)
SharedIds_NoTargetFilter(target_set, top_breed_names, i) ==
    IF i > Len(top_breed_names) THEN {}
    ELSE LET found == get_by_name(breeds, top_breed_names[i])
             rest == SharedIds_NoTargetFilter(target_set, top_breed_names, i + 1)
         IN  IF found = {} THEN rest
             ELSE LET b == CHOOSE b \in found : TRUE
                  IN  {l.disease_id : l \in {l \in links : l.breed_id = b.id}} \cup rest

\* The loop of _shared_diseases_with_top_breeds over the names from position
\* i on: a name that matches no breed is skipped.
RECURSIVE SharedIds(_, _, _)
SharedIds(target_set, top_breed_names, i) ==
    IF i > Len(top_breed_names) THEN {}
    ELSE LET found == get_by_name(breeds, top_breed_names[i])
             rest == SharedIds(target_set, top_breed_names, i + 1)
         IN  IF found = {} THEN rest
             ELSE LET b == CHOOSE b \in found : TRUE
                      their_ids == {l.disease_id : l \in {l \in links : l.breed_id = b.id}}
                  IN  (their_ids \cap target_set) \cup rest

\* _shared_diseases_with_top_breeds; "KeyError" when a shared id has no row
\* in diseases.
_shared_diseases_with_top_breeds(target_disease_ids, top_breed_names) ==
    IF top_breed_names = <<>> THEN <<>>
    ELSE LET shared_ids == SharedIds(Range(target_disease_ids), top_breed_names, 1)
         IN  IF shared_ids \subseteq {d.id : d \in diseases}
             THEN SortedNames(shared_ids)
             ELSE "KeyError"

\* _fallback_plan: the header line and one bullet line per disease
_fallback_plan(breed_name, ds) ==
    <<<<"Preventive care plan for", breed_name>>>>
    \o [i \in DOMAIN ds |-> <<"-", ds[i].name, "monitor, vet checkups, lifestyle adjustments.">>]

\* What the text generation service does when called: it answers, or the
\* call or the reading of its answer raises.
PrimaryOutcomes == {"text", "raises"}
Envs == [client : BOOLEAN, api_key : BOOLEAN, primary : PrimaryOutcomes]

\* OnPrimaryFailure with the exception left to propagate.
OnPrimaryFailure_Propagates(breed_name, ds) == "raised"

\* The except branch of _generate_care_plan
OnPrimaryFailure(breed_name, ds) == _fallback_plan(breed_name, ds)

\* _generate_care_plan under the environment env
_generate_care_plan(breed_name, ds, env) ==
    IF ~env.client \/ ~env.api_key THEN _fallback_plan(breed_name, ds)
    ELSE IF env.primary = "text" THEN <<<<"generated text">>>>
    ELSE OnPrimaryFailure(breed_name, ds)

NoRow == [id |-> 0, name |-> "", species |-> ""]
NoRa == [pc |-> "idle", breed_name |-> "", target |-> NoRow, target_diseases |-> <<>>,
         top_raw |-> <<>>, top_adj |-> <<>>, shared |-> <<>>, steps |-> <<>>,
         status_code |-> 0, body |-> <<>>]
NoFn == [op |-> "none"]

\* AfterResolve with the raise of the 404 left out.
AfterResolve_NoAbort(found) == "fetch"

\* Where run_risk_analysis goes after the lookup of the breed.
AfterResolve(found) == IF found = {} THEN "done" ELSE "fetch"

\* GET /breeds/risk_analysis, step 1: _get_breed_by_name_or_404
RiskAnalysis(breed_name) ==
    /\ ra.pc \in {"idle", "done"}
    /\ analysed < MaxAnalyses
    /\ analysed' = analysed + 1
    /\ LET found == get_by_name(breeds, breed_name)
           to == AfterResolve(found)
       IN  IF found = {}
           THEN \E detail \in NotFoundDetails(breed_name) :
                ra' = [NoRa EXCEPT !.pc = to, !.breed_name = breed_name,
                                   !.steps = <<"resolve">>,
                                   !.status_code = IF to = "done" THEN 404 ELSE 0,
                                   !.body = detail]
           ELSE \E target \in found :
                ra' = [NoRa EXCEPT !.pc = to, !.breed_name = breed_name,
                                   !.steps = <<"resolve">>, !.target = target]
    /\ UNCHANGED <<store, post, fn>>

\* step 2: _fetch_target_diseases
FetchTargetDiseases ==
    /\ ra.pc = "fetch"
    /\ \E rows \in _fetch_target_diseases(ra.target.id) :
       ra' = [ra EXCEPT !.pc = "similarity", !.target_diseases = rows,
                        !.steps = Append(@, "fetch")]
    /\ UNCHANGED <<store, post, analysed, fn>>

\* step 3: _top_similar_breeds_via_sql, then _apply_species_penalty
TopSimilar ==
    /\ ra.pc = "similarity"
    /\ \E rows \in _top_similar_breeds_via_sql(ra.target.name) :
       ra' = [ra EXCEPT !.pc = "shared", !.top_raw = rows,
                        !.top_adj = _apply_species_penalty(ra.target.species, rows),
                        !.steps = Append(Append(@, "similarity"), "penalty")]
    /\ UNCHANGED <<store, post, analysed, fn>>

\* step 4: _shared_diseases_with_top_breeds
SharedDiseases ==
    /\ ra.pc = "shared"
    /\ LET ids == [i \in DOMAIN ra.target_diseases |-> ra.target_diseases[i].id]
           names == [i \in DOMAIN ra.top_adj |-> ra.top_adj[i].name]
           shared == _shared_diseases_with_top_breeds(ids, names)
       IN  IF shared = "KeyError"
           THEN ra' = [NoRa EXCEPT !.pc = "done", !.status_code = 500,
                                   !.breed_name = ra.breed_name,
                                   !.steps = Append(ra.steps, "shared")]
           ELSE ra' = [ra EXCEPT !.pc = "care_plan", !.shared = shared,
                                 !.steps = Append(@, "shared")]
    /\ UNCHANGED <<store, post, analysed, fn>>

\* steps 5 and 6: _generate_care_plan and the response
CarePlan ==
    /\ ra.pc = "care_plan"
    /\ \E env \in Envs :
       ra' = [NoRa EXCEPT !.pc = "done", !.status_code = 200,
                        !.breed_name = ra.breed_name,
                        !.steps = Append(ra.steps, "care_plan"),
                        !.body = [target_breed |-> ra.target.name,
                                  similar_breeds |-> ra.top_adj,
                                  shared_diseases |-> ra.shared,
                                  care_plan |-> _generate_care_plan(ra.target.name,
                                                    ra.target_diseases, env)]]
    /\ UNCHANGED <<store, post, analysed, fn>>

Init ==
    /\ breeds = {} /\ diseases = {} /\ links = {}
    /\ pc = [w \in Slots |-> "idle"]
    /\ req = [w \in Slots |-> NoBody]
    /\ cur = [w \in Slots |-> NoLocals]
    /\ resp = [w \in Slots |-> NoResp]
    /\ nwritten = [w \in Slots |-> 0]
    /\ made = <<>>
    /\ issued = 0
    /\ ra = NoRa
    /\ analysed = 0
    /\ fn = NoFn

\* POST /breeds requests, up to two at a time
NextPost ==
    \/ \E w \in Slots, body \in Bodies : PostBreeds(w, body)
    \/ \E w \in Slots : AddBreed(w)
    \/ \E w \in Slots : LoopEntry(w)
    \/ \E w \in Slots : CreateDisease(w)
    \/ \E w \in Slots : Commit(w)

\* GET /breeds/risk_analysis requests for the names in Names, one at a time
NextAnalysis(Names) ==
    \/ \E breed_name \in Names : RiskAnalysis(breed_name)
    \/ FetchTargetDiseases
    \/ TopSimilar
    \/ SharedDiseases
    \/ CarePlan

Next ==
    \/ NextPost
    \/ NextAnalysis(BreedNames \cup UnknownNames)

SpecPost == Init /\ [][NextPost]_vars

Spec == Init /\ [][Next]_vars

(***************************************************************************)
(* The components of the pipeline called on their own, over stores that    *)
(* registrations of the seed.py breeds produce.                            *)
(***************************************************************************)
MaxNames == 2         \* longest list of breed names given to the aggregator

\* seed.py: breeds (name, species), in Python's order of the names
SeedBreeds == <<[name |-> "Beagle", species |-> "dog"],
                [name |-> "Bulldog", species |-> "dog"],
                [name |-> "German Shepherd", species |-> "dog"],
                [name |-> "Persian", species |-> "cat"],
                [name |-> "Siamese", species |-> "cat"]>>

\* seed.py: diseases, in the order that gives them their ids
SeedDiseases == <<"Hip Dysplasia", "Diabetes">>

Quiet ==
    /\ pc = [w \in Slots |-> "idle"]
    /\ req = [w \in Slots |-> NoBody]
    /\ cur = [w \in Slots |-> NoLocals]
    /\ resp = [w \in Slots |-> NoResp]
    /\ nwritten = [w \in Slots |-> 0]
    /\ issued = 0
    /\ ra = NoRa
    /\ analysed = 0
    /\ fn = NoFn

\* An ascending list of the ids in S.
RECURSIVE IdList(_)
IdList(S) == IF S = {} THEN <<>>
             ELSE LET m == CHOOSE x \in S : \A y \in S : x <= y
                  IN  <<m>> \o IdList(S \ {m})

\* The store after the first k seed breeds were registered, breed i with the
\* diseases ds[i], every disease at prevalence 0.5.
InitStore ==
    /\ \E k \in 0..Len(SeedBreeds) : \E ds \in [1..k -> SUBSET (1..Len(SeedDiseases))] :
        /\ breeds = {[id |-> i, name |-> SeedBreeds[i].name,
                      species |-> SeedBreeds[i].species] : i \in 1..k}
        /\ links = {[breed_id |-> x[1], disease_id |-> x[2], prevalence |-> 5] :
                       x \in {y \in (1..k) \X (1..Len(SeedDiseases)) : y[2] \in ds[y[1]]}}
        /\ made = [i \in 1..k |-> [j \in DOMAIN IdList(ds[i]) |-> SeedDiseases[IdList(ds[i])[j]]]]
    /\ diseases = {[id |-> d, name |-> SeedDiseases[d]] : d \in 1..Len(SeedDiseases)}
    /\ Quiet

SeedNames == {SeedBreeds[i].name : i \in 1..Len(SeedBreeds)}

CallTopSimilar(target_breed_name) ==
    /\ fn = NoFn
    /\ \E rows \in _top_similar_breeds_via_sql(target_breed_name) :
       fn' = [op |-> "top_similar", arg |-> target_breed_name, out |-> rows]
    /\ UNCHANGED <<store, post, ra, analysed>>

AggregatorNames == {"Beagle", "Persian", "Labradorr"}

CallShared(ids, names) ==
    /\ fn = NoFn
    /\ fn' = [op |-> "shared", arg |-> [ids |-> ids, names |-> names],
              out |-> _shared_diseases_with_top_breeds(ids, names)]
    /\ UNCHANGED <<store, post, ra, analysed>>

NextStore ==
    \/ \E name \in SeedNames \cup UnknownNames : CallTopSimilar(name)
    \/ \E S \in SUBSET (1..Len(SeedDiseases)), names \in SeqsUpTo(AggregatorNames, MaxNames) :
          CallShared(IdList(S), names)

SpecStore == InitStore /\ [][NextStore]_vars

\* Risk analysis requests over the same stores.
SpecAnalysis == InitStore /\ [][NextAnalysis(SeedNames \cup UnknownNames)]_vars

\* Raw similarities given to the score adjuster.
RawIn == {[n |-> 0, d |-> 1], [n |-> 1, d |-> 20], [n |-> 1, d |-> 3], [n |-> 1, d |-> 2],
          [n |-> 3, d |-> 5], [n |-> 2, d |-> 3], [n |-> 1, d |-> 1]}

\* The lists the similarity engine can hand to the adjuster: at most
\* LimitRows rows of distinct breeds, descending in similarity.
EngineLists ==
    {s \in SeqsUpTo([name : {"Beagle", "Persian", "Siamese"}, similarity : RawIn], LimitRows) :
        \A i, j \in DOMAIN s : i < j =>
            /\ s[i].name # s[j].name
            /\ s[i].similarity.n * s[j].similarity.d >= s[j].similarity.n * s[i].similarity.d}

SpeciesOf(name) == (CHOOSE i \in 1..Len(SeedBreeds) : SeedBreeds[i].name = name)

CallPenalty(target_species, sims) ==
    /\ fn = NoFn
    /\ fn' = [op |-> "penalty", arg |-> [target_species |-> target_species, sims |-> sims],
              out |-> _apply_species_penalty(target_species, sims)]
    /\ UNCHANGED <<store, post, ra, analysed>>

CallCarePlan(breed_name, ds, env) ==
    /\ fn = NoFn
    /\ fn' = [op |-> "care_plan", arg |-> [breed_name |-> breed_name, ds |-> ds, env |-> env],
              out |-> _generate_care_plan(breed_name, ds, env)]
    /\ UNCHANGED <<store, post, ra, analysed>>

InitPure ==
    /\ breeds = {} /\ diseases = {} /\ links = {} /\ made = <<>>
    /\ Quiet

NextPure ==
    \/ \E target_species \in {"dog", "cat"}, s \in EngineLists :
          CallPenalty(target_species,
                      [i \in DOMAIN s |-> [name |-> s[i].name,
                                           species |-> SeedBreeds[SpeciesOf(s[i].name)].species,
                                           similarity |-> s[i].similarity]])
    \/ \E breed_name \in BreedNames,
          ds \in SeqsUpTo([name : DiseaseNames, prevalence : {5}], MaxListLen),
          env \in Envs :
          CallCarePlan(breed_name, ds, env)

SpecPure == InitPure /\ [][NextPure]_vars

(***************************************************************************)
(* Properties.                                                             *)
(***************************************************************************)
Running(w) == pc[w] \in {"add_breed", "loop", "create_disease", "commit"}

\* The request that created breed b is still running.
InFlight(b) == \E w \in Slots : Running(w) /\ cur[w].breed_id = b.id

DiseaseSet(breed_id) == {l.disease_id : l \in {l \in links : l.breed_id = breed_id}}

BreedNamed(name) == CHOOSE b \in breeds : b.name = name

NoRepeat(s) == \A i, j \in DOMAIN s : i # j => s[i] # s[j]

Abs(x) == IF x < 0 THEN -x ELSE x

\* C1: a POST /breeds request that ends in a validation error (422 for a
\* prevalence outside [0,1], 400 for a species outside {dog, cat} or a breed
\* name that exists) has committed no row to any table.
C1_ValidationErrorWritesNothing ==
    \A w \in Slots :
        (pc[w] = "done" /\ resp[w].code \in {400, 422}) => nwritten[w] = 0

\* A request whose second disease entry is the offending one was rejected
\* while another breed was stored.
C1_Witness ==
    \E w \in Slots :
        /\ pc[w] = "done" /\ resp[w].code = 422 /\ resp[w].loc = {2}
        /\ breeds # {}

\* C2: a uniqueness violation on the insert of a disease is treated as
\* "already exists, re-fetch": no request ends with the IntegrityError of
\* diseases.name, and any two stored breeds whose finished requests listed
\* the same disease name are both linked to the one disease row of that name.
C2_DiseaseRaceIsRefetched ==
    /\ \A w \in Slots :
          ~(pc[w] = "done" /\ resp[w].detail = "IntegrityError: diseases.name")
    /\ \A b1, b2 \in breeds : \A dn \in DiseaseNames :
          ( /\ b1.id # b2.id /\ ~InFlight(b1) /\ ~InFlight(b2)
            /\ NoRepeat(made[b1.id]) /\ NoRepeat(made[b2.id])
            /\ dn \in Range(made[b1.id]) \cap Range(made[b2.id]) )
          => /\ Cardinality(get_by_name(diseases, dn)) = 1
             /\ \A d \in get_by_name(diseases, dn) :
                   d.id \in DiseaseSet(b1.id) \cap DiseaseSet(b2.id)

\* C3: the raw similarity the engine returns for target T and candidate C is
\* |diseases(T) /\ diseases(C)| / |diseases(T) \/ diseases(C)|, is 0 when
\* both sets are empty, lies in [0,1] and is the value computed for (C, T).
C3_RawSimilarityIsJaccard ==
    fn.op = "top_similar" =>
        \A i \in DOMAIN fn.out :
            LET q == fn.out[i].similarity
                T == BreedNamed(fn.arg)
                C == BreedNamed(fn.out[i].name)
                A == DiseaseSet(T.id)
                B == DiseaseSet(C.id)
                back == RowFloat(SqlSimilarity(C.id, T.id))
            IN  /\ q.d > 0
                /\ IF A \cup B = {} THEN q.n = 0
                   ELSE q.n * Cardinality(A \cup B) = Cardinality(A \cap B) * q.d
                /\ 0 <= q.n /\ q.n <= q.d
                /\ q.n * back.d = back.n * q.d

\* The target has no disease and the engine returned a candidate with none:
\* the division by zero.
C3_Witness ==
    /\ fn.op = "top_similar"
    /\ fn.out # <<>>
    /\ DiseaseSet(BreedNamed(fn.arg).id) = {}
    /\ \E i \in DOMAIN fn.out : DiseaseSet(BreedNamed(fn.out[i].name).id) = {}

\* The engine returned a candidate that shares one disease of two.
C3_WitnessPartial ==
    /\ fn.op = "top_similar"
    /\ \E i \in DOMAIN fn.out : fn.out[i].similarity = [n |-> 1, d |-> 2]

\* a comes before b in descending similarity, names ascending among equals.
TieBrokenBefore(a, b) ==
    \/ a.similarity.n * b.similarity.d > b.similarity.n * a.similarity.d
    \/ /\ a.similarity.n * b.similarity.d = b.similarity.n * a.similarity.d
       /\ Rank(a.name) < Rank(b.name)

Candidates(target) ==
    {[name |-> r.name, species |-> r.species, similarity |-> RowFloat(r.similarity)] :
        r \in SimilarityRows(target)}

\* C4: the engine's result never holds the target and is the first 3 (or
\* fewer) of all other breeds in descending raw similarity, ties by name
\* ascending.
C4_TopThreeTieBrokenByName ==
    fn.op = "top_similar" =>
        LET cands == Candidates(fn.arg) IN
        /\ Len(fn.out) = Min(3, Cardinality(cands))
        /\ \A i \in DOMAIN fn.out :
              /\ fn.out[i].name # fn.arg
              /\ fn.out[i] \in cands
              /\ Cardinality({c \in cands : TieBrokenBefore(c, fn.out[i])}) = i - 1

\* The input list is in the order C4 asks of the engine.
TieBrokenList(s) == \A i, j \in DOMAIN s : i < j => TieBrokenBefore(s[i], s[j])

\* C5: the adjusted list is sorted descending by adjusted score, entries of
\* equal adjusted score are in ascending name order, and it has at most 3
\* entries (stated for the input lists that are themselves tie-broken by name).
C5_AdjustedSortedTiesByName ==
    (fn.op = "penalty" /\ TieBrokenList(fn.arg.sims)) =>
        /\ Len(fn.out) <= 3
        /\ \A i, j \in DOMAIN fn.out : i < j =>
              \/ fn.out[i].similarity > fn.out[j].similarity
              \/ /\ fn.out[i].similarity = fn.out[j].similarity
                 /\ Rank(fn.out[i].name) < Rank(fn.out[j].name)

\* The exact value the adjusted score rounds: the raw score for the same
\* species, max(0, raw - 0.10) otherwise.
ExactScore(raw, species, target_species) ==
    IF species = target_species THEN raw
    ELSE IF 10 * raw.n < raw.d THEN [n |-> 0, d |-> 1]
    ELSE [n |-> 10 * raw.n - raw.d, d |-> 10 * raw.d]

InputOf(name) == CHOOSE e \in Range(fn.arg.sims) : e.name = name

\* score (in units of 0.0001) is x rounded to 4 decimal places
IsRounded4(score, x) == 2 * Abs(10000 * x.n - score * x.d) <= x.d

\* C6 as stated: the adjusted score is the raw score (same species) or
\* max(0, raw - 0.10) (otherwise) rounded to 4 decimal places, lies in [0,1]
\* and never exceeds the raw score.
C6_AdjustedNeverExceedsRaw ==
    fn.op = "penalty" =>
        \A i \in DOMAIN fn.out :
            LET e == InputOf(fn.out[i].name)
                score == fn.out[i].similarity
            IN  /\ IsRounded4(score, ExactScore(e.similarity, e.species, fn.arg.target_species))
                /\ 0 <= score /\ score <= 10000
                /\ score * e.similarity.d <= 10000 * e.similarity.n

\* C6 as amended: ... and never exceeds the raw score by more than the
\* rounding, 0.00005.
C6_AdjustedWithinRounding ==
    fn.op = "penalty" =>
        /\ Len(fn.out) = Len(fn.arg.sims)
        /\ \A i \in DOMAIN fn.out :
            LET e == InputOf(fn.out[i].name)
                score == fn.out[i].similarity
            IN  /\ fn.out[i].species = e.species
                /\ IsRounded4(score, ExactScore(e.similarity, e.species, fn.arg.target_species))
                /\ 0 <= score /\ score <= 10000
                /\ 2 * (score * e.similarity.d - 10000 * e.similarity.n) <= e.similarity.d

\* A cross-species candidate of raw 0.05 came out at 0 and one of raw 0.5 at 0.4.
C6_Witness ==
    /\ fn.op = "penalty"
    /\ \E i, j \in DOMAIN fn.out :
          /\ InputOf(fn.out[i].name).similarity = [n |-> 1, d |-> 20]
          /\ fn.out[i].species # fn.arg.target_species
          /\ fn.out[i].similarity = 0
          /\ InputOf(fn.out[j].name).similarity = [n |-> 1, d |-> 2]
          /\ fn.out[j].species # fn.arg.target_species
          /\ fn.out[j].similarity = 4000

\* C7: the aggregator returns the names of the diseases in (target set /\
\* union of the disease sets of the named breeds that exist), ascending and
\* without duplicates; a name of no breed is skipped; the result is empty
\* for an empty target set or an empty name list.
C7_SharedDiseasesAreTargetMeetUnion ==
    fn.op = "shared" =>
        LET target_set == Range(fn.arg.ids)
            named == {b \in breeds : b.name \in Range(fn.arg.names)}
            expected == {d \in diseases :
                            /\ d.id \in target_set
                            /\ \E b \in named : \E l \in links :
                                  l.breed_id = b.id /\ l.disease_id = d.id}
        IN  /\ fn.out # "KeyError"
            /\ \A i, j \in DOMAIN fn.out : i < j => Rank(fn.out[i]) < Rank(fn.out[j])
            /\ Range(fn.out) = {d.name : d \in expected}
            /\ Range(fn.out) \subseteq {d.name : d \in {d \in diseases : d.id \in target_set}}
            /\ (target_set = {} \/ fn.arg.names = <<>>) => fn.out = <<>>

\* Two diseases came back for a name list that holds a name of no breed.
C7_Witness ==
    /\ fn.op = "shared"
    /\ \E i \in DOMAIN fn.arg.names : get_by_name(breeds, fn.arg.names[i]) = {}
    /\ fn.out = <<"Diabetes", "Hip Dysplasia">>

FallbackHeader(breed_name) == <<"Preventive care plan for", breed_name>>
FallbackLine(name) == <<"-", name, "monitor, vet checkups, lifestyle adjustments.">>

\* C8: the care plan generator never raises, and when the credential or the
\* client is missing or the primary call fails it returns the fallback text:
\* the header naming the breed, then one line per disease in the order given.
C8_FallbackOnAnyFailure ==
    fn.op = "care_plan" =>
        /\ fn.out # "raised"
        /\ (~fn.arg.env.client \/ ~fn.arg.env.api_key \/ fn.arg.env.primary = "raises") =>
              /\ Len(fn.out) = 1 + Len(fn.arg.ds)
              /\ fn.out[1] = FallbackHeader(fn.arg.breed_name)
              /\ \A i \in DOMAIN fn.arg.ds : fn.out[i + 1] = FallbackLine(fn.arg.ds[i].name)

\* The primary call was made and failed, for a breed with two diseases.
C8_Witness ==
    /\ fn.op = "care_plan"
    /\ fn.arg.env.client /\ fn.arg.env.api_key /\ fn.arg.env.primary = "raises"
    /\ Len(fn.arg.ds) = 2 /\ fn.arg.ds[1].name # fn.arg.ds[2].name
    /\ Len(fn.out) = 3

PipelineSteps == <<"resolve", "fetch", "similarity", "penalty", "shared", "care_plan">>

C9_State ==
    /\ \E k \in 0..Len(PipelineSteps) : ra.steps = SubSeq(PipelineSteps, 1, k)
    /\ ra.pc = "done" => ra.status_code \in {200, 404}
    /\ ra.status_code = 404 =>
          /\ ra.pc = "done"
          /\ ra.steps = <<"resolve">>
          /\ ra.body.breed_name = ra.breed_name
    /\ ra.status_code = 200 =>
          /\ ra.pc = "done"
          /\ ra.steps = PipelineSteps
          /\ ra.body.target_breed = ra.breed_name
          /\ get_by_name(breeds, ra.body.target_breed) # {}

\* A request is taken: it ends 404 at once exactly when no breed has the name.
C9_Step ==
    (ra.pc \in {"idle", "done"} /\ ra'.pc # "idle" /\ analysed' # analysed) =>
        ((ra'.pc = "done" /\ ra'.status_code = 404)
            <=> get_by_name(breeds, ra'.breed_name) = {})

\* C9: a name of no stored breed ends the request with a 404 that carries
\* the name and no later step of the pipeline runs; for a stored name the
\* steps run in the order fetch, similarity, penalty, shared diseases, care
\* plan, and target_breed of the response is the stored name.
C9_NotFoundAbortsPipeline == []C9_State /\ [][C9_Step]_vars

\* A request for an unregistered name ended 404 while a breed was stored.
C9_Witness ==
    /\ ra.pc = "done" /\ ra.status_code = 404
    /\ ra.breed_name = "Labradorr"
    /\ breeds # {}

C10_State ==
    /\ \A a, b \in breeds : a.name = b.name => a = b
    /\ \A a, b \in diseases : a.name = b.name => a = b
    /\ \A k, l \in links : LinkKey(k) = LinkKey(l) => k = l
    /\ \A l \in links : 0 <= l.prevalence /\ l.prevalence <= 10
    /\ \A b \in breeds : b.species \in {"dog", "cat"}
    /\ \A b \in breeds : ~InFlight(b) =>
          \A dn \in Range(made[b.id]) :
              \E d \in diseases : d.name = dn /\ d.id \in DiseaseSet(b.id)

RiskAnalysisStep == ra' # ra

\* C10: the store keeps the data model's invariants in every reachable state:
\* unique breed names, unique disease names, one link per (breed, disease),
\* prevalence in [0,1], species in {dog, cat}, and every stored breed (whose
\* request has finished) has a link for each disease its request named;
\* run_risk_analysis leaves the tables unchanged.
C10_StoreInvariants == []C10_State /\ [][RiskAnalysisStep => store' = store]_vars

====
